---- MODULE Spec2Model ----
(***************************************************************************)
(* Model of src/src/test_type/query/updates.rs: the "Updates" test type of *)
(* the verifier (struct Updates, its Executor implementation and its       *)
(* private checks).                                                        *)
(*                                                                         *)
(* Strings are sequences of tokens: a digit string is the sequence of its  *)
(* digit characters, so that formatting and parsing are computed, and a    *)
(* URL or a fixed argument is a one-token sequence that only ever gets     *)
(* concatenated and compared.                                              *)
(* u32 values that can wrap are pairs <<hi, lo>> of 16-bit halves.         *)
(***************************************************************************)
EXTENDS Integers, Sequences, FiniteSets, TLC

VARIABLES
    concurrency_levels,   \* Updates.concurrency_levels
    database_verifier,    \* Updates.database_verifier: the answers it can give
    num_cpus,             \* num_cpus::get() of the host
    entry,                \* the method that was called
    pc,                   \* position inside the called method
    url,                  \* the url argument
    messages,             \* the Messages accumulator
    result,               \* "none", "Ok", "Err" or "panic"
    test_index,           \* position of the for loop over test_cases
    expected_length,      \* verify: expected_length of the current test case
    concurrency,          \* verify: concurrency / the checks' argument
    repetitions,          \* verify: repetitions / the checks' argument
    expected_rows,        \* verify: expected_rows
    expected_queries,     \* verify: expected_queries
    expected_updates,     \* verify: expected_updates / the check's argument, u32
    check_url,            \* the checks' url argument
    before_count,         \* verify_updates_count: all_rows_updated_before_count
    after_count,          \* verify_updates_count: all_rows_updated_after_count
    updated,              \* verify_updates_count: updated, u32
    worlds_before,        \* verify_updates: worlds_before
    worlds_after,         \* verify_updates: worlds_after
    updates,              \* verify_updates: updates
    primer_command,       \* retrieve_benchmark_commands: primer_command
    warmup_command,       \* retrieve_benchmark_commands: warmup_command
    benchmark_commands,   \* retrieve_benchmark_commands: benchmark_commands
    fetches,              \* observer: the fetch collaborator's calls so far
    calls                 \* observer: the database collaborator's calls so far

vars == <<concurrency_levels, database_verifier, num_cpus, entry, pc, url,
          messages, result, test_index, expected_length, concurrency,
          repetitions, expected_rows, expected_queries, expected_updates,
          check_url, before_count, after_count, updated, worlds_before, worlds_after, updates, primer_command,
          warmup_command, benchmark_commands, fetches, calls>>

-----------------------------------------------------------------------------
(* Bounds of the model *)

\* longest configured list of concurrency levels
MaxLevels == 2
\* largest key of a world snapshot (keys are 0..MaxKey)
MaxKey == 2
\* largest small value of expected_updates / updates tried by the tier check
MaxSmall == 12

-----------------------------------------------------------------------------
(* Generic helpers *)

Min(a, b) == IF a <= b THEN a ELSE b

RECURSIVE SeqMax(_)
SeqMax(s) ==
    IF Len(s) = 1 THEN s[1]
    ELSE LET m == SeqMax(Tail(s)) IN IF s[1] >= m THEN s[1] ELSE m

RECURSIVE BitLen(_)
BitLen(n) == IF n = 0 THEN 0 ELSE 1 + BitLen(n \div 2)

\* all sequences over S of length 1..n
RECURSIVE SeqsUpTo(_, _)
SeqsUpTo(S, n) ==
    IF n = 0 THEN {}
    ELSE LET shorter == SeqsUpTo(S, n - 1)
         IN  {<<x>> : x \in S} \cup shorter
             \cup {Append(s, x) : s \in shorter, x \in S}

-----------------------------------------------------------------------------
(* u32 arithmetic on <<hi, lo>> pairs of 16-bit halves *)

Half == 2^16

U32(n) == <<n \div Half, n % Half>>

U32Max == <<Half - 1, Half - 1>>

U32Less(a, b) == a[1] < b[1] \/ (a[1] = b[1] /\ a[2] < b[2])

\* a - b modulo 2^32: what `a - b` gives when overflow checks are off
U32WrappingSub(a, b) ==
    LET lo     == a[2] - b[2]
        borrow == IF lo < 0 THEN 1 ELSE 0
        hi     == a[1] - b[1] - borrow
    IN  <<hi % Half, lo % Half>>

\* the builds of the crate: with overflow checks (debug) and without (release)
OverflowChecks == {TRUE, FALSE}

-----------------------------------------------------------------------------
(* f32 arithmetic of the tier thresholds, for u32 values below 2^31 *)

\* 0.90_f32 = 15099494 * 2^-24 and 0.95_f32 = 15938355 * 2^-24
F32Mant90 == 15099494
F32Mant95 == 15938355

I32Max == 2147483647

\* n with its low d bits dropped, rounded to nearest, ties to even
RoundShift(n, d) ==
    IF d = 0 THEN n
    ELSE LET q    == n \div 2^d
             r    == n % 2^d
             half == 2^(d - 1)
         IN  IF r > half \/ (r = half /\ q % 2 = 1) THEN q + 1 ELSE q

\* `n as f32`: <<m, s>> with n rounded to m * 2^s, m of at most 24 bits
AsF32(n) ==
    LET k == BitLen(n)
    IN  IF k <= 24 THEN <<n, 0>> ELSE <<RoundShift(n, k - 24), k - 24>>

\* `(n as f32 * c) as i32` for the f32 constant c = mant * 2^-24:
\* the exact product m * mant = H * 2^24 + F is formed from 12-bit limbs,
\* rounded to 24 significant bits (the f32 product), then truncated towards
\* zero and saturated at i32::MAX (the `as i32` cast).
F32MulToI32(n, mant) ==
    LET f   == AsF32(n)
        m   == f[1]
        s   == f[2]
        mh  == m \div 4096
        ml  == m % 4096
        ch  == mant \div 4096
        cl  == mant % 4096
        t0  == ml * cl
        t1  == mh * cl + ml * ch + (t0 \div 4096)
        H   == mh * ch + (t1 \div 4096)
        F   == (t1 % 4096) * 4096 + (t0 % 4096)
        kH  == BitLen(H)
        \* the 24-bit significand R, of weight 2^x
        R   == IF H = 0 THEN F
               ELSE LET q    == H * 2^(24 - kH) + (F \div 2^kH)
                        r    == F % 2^kH
                        half == 2^(kH - 1)
                    IN  IF r > half \/ (r = half /\ q % 2 = 1)
                        THEN q + 1 ELSE q
        x   == IF H = 0 THEN s - 24 ELSE kH + s - 24
    IN  IF x < 0 THEN R \div 2^(0 - x)
        ELSE IF x >= 7 /\ (x >= 31 \/ R \div 2^(31 - x) >= 1) THEN I32Max
        ELSE R * 2^x

-----------------------------------------------------------------------------
(* Strings *)

Digits == <<"0", "1", "2", "3", "4", "5", "6", "7", "8", "9">>

\* format!("{}", n) for an unsigned n: its decimal digits
RECURSIVE Fmt(_)
Fmt(n) ==
    IF n < 10 THEN <<Digits[n + 1]>>
    ELSE Append(Fmt(n \div 10), Digits[(n % 10) + 1])

IsDigit(c) == \E d \in 1..10 : Digits[d] = c

DigitVal(c) == (CHOOSE d \in 1..10 : Digits[d] = c) - 1

\* the number a non-empty string of digits denotes
RECURSIVE ParseDigits(_)
ParseDigits(str) ==
    IF Len(str) = 0 THEN 0
    ELSE 10 * ParseDigits(SubSeq(str, 1, Len(str) - 1)) + DigitVal(str[Len(str)])

\* Query::translate_query_count: numeric parse clamped into [min, max],
\* non-numeric input maps to min
TranslateQueryCount(query, min, max) ==
    IF Len(query) > 0 /\ \A k \in 1..Len(query) : IsDigit(query[k])
    THEN LET n == ParseDigits(query)
         IN  IF n < min THEN min ELSE IF n > max THEN max ELSE n
    ELSE min

\* let test_cases = ["2", "0", "foo", "501", ""];
test_cases == << <<"2">>, <<"0">>, <<"f", "o", "o">>, <<"5", "0", "1">>, <<>> >>

\* format!("{}20", url)
Url20(u) == u \o <<"2", "0">>

-----------------------------------------------------------------------------
(* Messages *)

Error(label, args) == [severity |-> "error", label |-> label, args |-> args]

Warning(label, args) == [severity |-> "warning", label |-> label, args |-> args]

\* messages.headers(..) and messages.body(..): the raw capture
Capture(what) == [severity |-> what, label |-> "", args |-> <<>>]

\* what a collaborator that takes `messages` may report on its own
MayReport(op) ==
    IF op \in database_verifier.reports THEN <<Error(op, <<>>)>> ELSE <<>>

-----------------------------------------------------------------------------
(* Pure parts of the checks *)

\* the expected rows of a single repetition
ExpectedRowsOnce(reps, conc) == 20 * conc

\* verify, line 41: 20 * repetitions * concurrency
ExpectedRows(reps, conc) == 20 * reps * conc

\* verify_updates, line 159: concurrency * repetitions
ExpectedUpdatesOf(conc, reps) == conc * reps

\* an exact-match test in place of the lower bound
TooFewRowsExact(upd, expected) == upd # expected

\* verify_updates_count, line 138: updated.cmp(&expected_updates) is Less
TooFewRows(upd, expected) == U32Less(upd, expected)

\* verify_updates, lines 172-181: the indices 0..len-1 of worlds_before that
\* are keys of both snapshots with different content
CountUpdates(before, after) ==
    Cardinality({index \in 0..(Cardinality(DOMAIN before) - 1) :
                    /\ index \in DOMAIN before
                    /\ index \in DOMAIN after
                    /\ before[index] # after[index]})

\* the tier policy with strict comparisons at the boundaries
TierMessagesStrict(upd, expected) ==
    IF upd = 0 THEN <<Error("No Updates", <<>>)>>
    ELSE IF upd < F32MulToI32(expected, F32Mant90)
         THEN <<Error("Too Few Updates", <<upd, expected>>)>>
    ELSE IF upd < F32MulToI32(expected, F32Mant95)
         THEN <<Warning("Too Few Updates", <<upd, expected>>)>>
    ELSE <<>>

\* verify_updates, lines 183-195: the message the tier policy records
TierMessages(upd, expected) ==
    IF upd = 0 THEN <<Error("No Updates", <<>>)>>
    ELSE IF upd <= F32MulToI32(expected, F32Mant90)
         THEN <<Error("Too Few Updates", <<upd, expected>>)>>
    ELSE IF upd <= F32MulToI32(expected, F32Mant95)
         THEN <<Warning("Too Few Updates", <<upd, expected>>)>>
    ELSE <<>>

\* the load tool's arguments with one thread per connection
GetWrkCommandThreads(u, duration, conc) ==
    << <<"wrk">>,
       <<"-H">>, <<"Host: tfb-server">>,
       <<"-H">>, <<"Accept: application/json,text/html;q=0.9,application/xhtml+xml;q=0.9,application/xml;q=0.8,*/*;q=0.7">>,
       <<"-H">>, <<"Connection: keep-alive">>,
       <<"--latency">>,
       <<"-d">>, Fmt(duration),
       <<"-c">>, Fmt(conc),
       <<"--timeout">>, <<"8">>,
       <<"-t">>, Fmt(conc),
       u >>

\* get_wrk_command: the argument list of the load tool
GetWrkCommand(u, duration, conc) ==
    << <<"wrk">>,
       <<"-H">>, <<"Host: tfb-server">>,
       <<"-H">>, <<"Accept: application/json,text/html;q=0.9,application/xhtml+xml;q=0.9,application/xml;q=0.8,*/*;q=0.7">>,
       <<"-H">>, <<"Connection: keep-alive">>,
       <<"--latency">>,
       <<"-d">>, Fmt(duration),
       <<"-c">>, Fmt(conc),
       <<"--timeout">>, <<"8">>,
       <<"-t">>, Fmt(Min(conc, num_cpus)),
       u >>

-----------------------------------------------------------------------------
(* Inputs *)

\* endpoint URLs
Urls == { <<"http://tfb-server/updates?queries=">>, <<"http://tfb-server/u/">> }

\* the answers the database collaborator may give
NoWorld == <<>>

Worlds(K) == UNION {[D -> {0, 1}] : D \in SUBSET (0..K)}

World16(changed) == [k \in 0..15 |-> IF k < changed THEN 1 ELSE 0]

WorldFrom1 == [k \in 1..16 |-> 1]

DatabaseOps == {"verify_queries_count", "verify_rows_count", "issue_multi_query_requests"}

\* the variables a method that is not running leaves at their defaults
Locals == <<test_index, expected_length, concurrency, repetitions, expected_rows,
            expected_queries, expected_updates, check_url, before_count,
            after_count, updated, worlds_before, worlds_after, updates,
            primer_command, warmup_command, benchmark_commands>>

LocalsInit ==
    /\ test_index = 0
    /\ expected_length = 0
    /\ concurrency = 0
    /\ repetitions = 0
    /\ expected_rows = 0
    /\ expected_queries = 0
    /\ expected_updates = U32(0)
    /\ check_url = <<>>
    /\ before_count = U32(0)
    /\ after_count = U32(0)
    /\ updated = U32(0)
    /\ worlds_before = NoWorld
    /\ worlds_after = NoWorld
    /\ updates = 0
    /\ primer_command = <<>>
    /\ warmup_command = <<>>
    /\ benchmark_commands = <<>>

Call(op, u, conc, reps, expected) ==
    [op |-> op, url |-> u, concurrency |-> conc, repetitions |-> reps,
     expected |-> expected]

Read(op) == Call(op, <<>>, 0, 0, 0)

-----------------------------------------------------------------------------
(* Executor::verify *)

VerifyLevels == {8, 32}

VerifyCounts == {U32(0), U32(320), U32(1280)}

VerifyWorlds == {World16(0), World16(15), World16(16), WorldFrom1}

Init ==
    /\ concurrency_levels \in {<<>>} \cup SeqsUpTo(VerifyLevels, MaxLevels)
    /\ database_verifier \in
         {[counts |-> VerifyCounts, worlds |-> VerifyWorlds, reports |-> r] :
            r \in {{}, DatabaseOps}}
    /\ num_cpus = 4
    /\ entry = "verify"
    /\ pc = "verify"
    /\ url = <<"http://tfb-server/updates?queries=">>
    /\ messages = <<>>
    /\ result = "none"
    /\ fetches = <<>>
    /\ calls = <<>>
    /\ LocalsInit

\* lines 34-52: Messages::new and the locals of the query counting
VerifyStart ==
    /\ pc = "verify"
    /\ IF concurrency_levels = <<>>
       THEN \* line 40: unwrap() of the maximum of no levels
            /\ result' = "panic"
            /\ pc' = "done"
            /\ UNCHANGED <<messages, concurrency, repetitions, expected_rows,
                           expected_queries, expected_updates>>
       ELSE /\ messages' = <<>>
            /\ repetitions' = 2
            /\ concurrency' = SeqMax(concurrency_levels)
            /\ expected_rows' = ExpectedRows(repetitions', concurrency')
            /\ expected_updates' = U32(expected_rows')
            /\ expected_queries' = expected_rows' \div 20
            /\ pc' = "headers"
            /\ UNCHANGED result
    /\ UNCHANGED <<concurrency_levels, database_verifier, num_cpus, entry, url,
                   test_index, expected_length, check_url, before_count,
                   after_count, updated, worlds_before, worlds_after, updates,
                   primer_command, warmup_command, benchmark_commands,
                   fetches, calls>>

\* a header fetch whose error is not propagated
NeverPropagates(ok) == FALSE

\* line 54: the `?` on get_response_headers returns the transport error
Propagates(ok) == ~ok

\* lines 54-56: get_response_headers(..)?, messages.headers, verify_headers
FetchHeaders ==
    /\ pc = "headers"
    /\ \E ok \in BOOLEAN, pass \in BOOLEAN :
         /\ fetches' = Append(fetches, [what |-> "headers", url |-> url, ok |-> ok])
         /\ IF Propagates(ok)
            THEN /\ result' = "Err"
                 /\ pc' = "done"
                 /\ UNCHANGED <<messages, test_index>>
            ELSE /\ messages' = messages \o <<Capture("headers")>>
                        \o (IF pass THEN <<>> ELSE <<Error("verify_headers", <<>>)>>)
                 /\ test_index' = 1
                 /\ pc' = "loop"
                 /\ UNCHANGED result
    /\ UNCHANGED <<concurrency_levels, database_verifier, num_cpus, entry, url,
                   expected_length, concurrency, repetitions, expected_rows,
                   expected_queries, expected_updates, check_url, before_count,
                   after_count, updated, worlds_before, worlds_after, updates,
                   primer_command, warmup_command, benchmark_commands, calls>>

\* get_response_body: a body with some number of entries, or, on a transport
\* failure, no entries at all (line 62 has no `?`: a String comes back)
ResponseBodies ==
    {[ok |-> TRUE, len |-> n] : n \in {1, 2, 500}} \cup {[ok |-> FALSE, len |-> 0]}

\* the delta checks for every length up to max
RunsDeltaChecksUpTo(length, max) == length <= max

\* line 70: if expected_length == max
RunsDeltaChecks(length, max) == length = max

\* lines 58-70: one test case: translate, get_response_body, messages.body,
\* verify_with_length, and the test on expected_length == max
LoopBody ==
    /\ pc = "loop"
    /\ test_index <= Len(test_cases)
    /\ LET test_case == test_cases[test_index]
           count_url == url \o test_case
       IN  \E response_body \in ResponseBodies :
             /\ expected_length' = TranslateQueryCount(test_case, 1, 500)
             /\ fetches' = Append(fetches, [what |-> "body", url |-> count_url,
                                            ok |-> response_body.ok])
             /\ messages' = messages \o <<Capture("body")>>
                     \o (IF response_body.len = expected_length' THEN <<>>
                         ELSE <<Error("verify_with_length", <<expected_length'>>)>>)
             /\ IF RunsDeltaChecks(expected_length', 500)
                THEN pc' = "verify_queries_count" /\ UNCHANGED test_index
                ELSE pc' = "loop" /\ test_index' = test_index + 1
    /\ UNCHANGED <<concurrency_levels, database_verifier, num_cpus, entry, url,
                   result, concurrency, repetitions, expected_rows,
                   expected_queries, expected_updates, check_url, before_count,
                   after_count, updated, worlds_before, worlds_after, updates,
                   primer_command, warmup_command, benchmark_commands, calls>>

\* line 105: Ok(messages)
LoopEnd ==
    /\ pc = "loop"
    /\ test_index > Len(test_cases)
    /\ result' = "Ok"
    /\ pc' = "done"
    /\ UNCHANGED <<concurrency_levels, database_verifier, num_cpus, entry, url,
                   messages, Locals, fetches, calls>>

\* lines 71-78: database_verifier.verify_queries_count
QueriesCount ==
    /\ pc = "verify_queries_count"
    /\ calls' = Append(calls, Call("verify_queries_count", Url20(url),
                                   concurrency, repetitions, expected_queries))
    /\ messages' = messages \o MayReport("verify_queries_count")
    /\ pc' = "verify_rows_count"
    /\ UNCHANGED <<concurrency_levels, database_verifier, num_cpus, entry, url,
                   result, Locals, fetches>>

\* lines 79-87: database_verifier.verify_rows_count
RowsCount ==
    /\ pc = "verify_rows_count"
    /\ calls' = Append(calls, Call("verify_rows_count", Url20(url),
                                   concurrency, repetitions, expected_rows))
    /\ messages' = messages \o MayReport("verify_rows_count")
    /\ pc' = "call_verify_updates_count"
    /\ UNCHANGED <<concurrency_levels, database_verifier, num_cpus, entry, url,
                   result, Locals, fetches>>

\* lines 88-95: the call of verify_updates_count
CallVerifyUpdatesCount ==
    /\ pc = "call_verify_updates_count"
    /\ check_url' = Url20(url)
    /\ calls' = Append(calls, Call("verify_updates_count", Url20(url),
                                   concurrency, repetitions, expected_updates))
    /\ pc' = "uc_before"
    /\ UNCHANGED <<concurrency_levels, database_verifier, num_cpus, entry, url,
                   messages, result, test_index, expected_length, concurrency,
                   repetitions, expected_rows, expected_queries,
                   expected_updates, before_count, after_count, updated,
                   worlds_before, worlds_after, updates, primer_command,
                   warmup_command, benchmark_commands, fetches>>

\* lines 96-101: the call of verify_updates
CallVerifyUpdates ==
    /\ pc = "call_verify_updates"
    /\ check_url' = Url20(url)
    /\ calls' = Append(calls, Call("verify_updates", Url20(url),
                                   concurrency, repetitions, 0))
    /\ pc' = "vu_before"
    /\ UNCHANGED <<concurrency_levels, database_verifier, num_cpus, entry, url,
                   messages, result, test_index, expected_length, concurrency,
                   repetitions, expected_rows, expected_queries,
                   expected_updates, before_count, after_count, updated,
                   worlds_before, worlds_after, updates, primer_command,
                   warmup_command, benchmark_commands, fetches>>

-----------------------------------------------------------------------------
(* Updates::verify_updates_count *)

\* the state no step of a check touches
CheckFrame == <<concurrency_levels, database_verifier, num_cpus, entry, url,
                test_index, expected_length, concurrency, repetitions,
                expected_rows, expected_queries, expected_updates, check_url,
                primer_command, warmup_command, benchmark_commands, fetches>>

\* lines 122-124: all_rows_updated_before_count
UCBefore ==
    /\ pc = "uc_before"
    /\ \E c \in database_verifier.counts : before_count' = c
    /\ calls' = Append(calls, Read("get_count_of_rows_updated_for_table"))
    /\ pc' = "uc_load"
    /\ UNCHANGED <<CheckFrame, messages, result, after_count, updated,
                   worlds_before, worlds_after, updates>>

\* lines 126-127: issue_multi_query_requests(url, concurrency, repetitions, messages)
UCLoad ==
    /\ pc = "uc_load"
    /\ calls' = Append(calls, Call("issue_multi_query_requests", check_url,
                                   concurrency, repetitions, 0))
    /\ messages' = messages \o MayReport("issue_multi_query_requests")
    /\ pc' = "uc_after"
    /\ UNCHANGED <<CheckFrame, result, before_count, after_count, updated,
                   worlds_before, worlds_after, updates>>

\* lines 129-131: all_rows_updated_after_count
UCAfter ==
    /\ pc = "uc_after"
    /\ \E c \in database_verifier.counts : after_count' = c
    /\ calls' = Append(calls, Read("get_count_of_rows_updated_for_table"))
    /\ pc' = "uc_compare"
    /\ UNCHANGED <<CheckFrame, messages, result, before_count, updated,
                   worlds_before, worlds_after, updates>>

\* lines 138-146: the error of the comparison
RowsMessages(upd, expected) ==
    IF TooFewRows(upd, expected)
    THEN <<Error("Too Few Rows", <<upd, expected>>)>>
    ELSE <<>>

\* lines 133-146: the u32 subtraction (a panic under overflow checks when the
\* after count is the smaller one, the wrapped difference without them) and
\* the comparison with expected_updates
UCCompare ==
    /\ pc = "uc_compare"
    /\ \E checks \in OverflowChecks :
         IF U32Less(after_count, before_count) /\ checks
         THEN /\ result' = "panic"
              /\ pc' = "done"
              /\ UNCHANGED <<messages, updated>>
         ELSE /\ updated' = U32WrappingSub(after_count, before_count)
              /\ messages' = messages \o RowsMessages(updated', expected_updates)
              /\ pc' = "uc_return"
              /\ UNCHANGED result
    /\ UNCHANGED <<CheckFrame, before_count, after_count, worlds_before,
                   worlds_after, updates, calls>>

\* line 147: the locals go, control returns to the caller
UCReturn ==
    /\ pc = "uc_return"
    /\ before_count' = U32(0)
    /\ after_count' = U32(0)
    /\ updated' = U32(0)
    /\ IF entry = "verify"
       THEN pc' = "call_verify_updates" /\ UNCHANGED result
       ELSE pc' = "done" /\ result' = "returned"
    /\ UNCHANGED <<CheckFrame, messages, worlds_before, worlds_after, updates,
                   calls>>

-----------------------------------------------------------------------------
(* Updates::verify_updates *)

\* line 165: worlds_before
VUBefore ==
    /\ pc = "vu_before"
    /\ \E w \in database_verifier.worlds : worlds_before' = w
    /\ calls' = Append(calls, Read("get_all_from_world_table"))
    /\ pc' = "vu_load"
    /\ UNCHANGED <<CheckFrame, messages, result, before_count, after_count,
                   updated, worlds_after, updates>>

\* the load of verify_updates issued with the caller's repetitions
VULoadRepetitions ==
    /\ pc = "vu_load"
    /\ calls' = Append(calls, Call("issue_multi_query_requests", check_url,
                                   concurrency, repetitions, 0))
    /\ messages' = messages \o MayReport("issue_multi_query_requests")
    /\ pc' = "vu_after"
    /\ UNCHANGED <<CheckFrame, result, before_count, after_count, updated,
                   worlds_before, worlds_after, updates>>

\* lines 167-168: issue_multi_query_requests(url, concurrency, 1, messages)
VULoad ==
    /\ pc = "vu_load"
    /\ calls' = Append(calls, Call("issue_multi_query_requests", check_url,
                                   concurrency, 1, 0))
    /\ messages' = messages \o MayReport("issue_multi_query_requests")
    /\ pc' = "vu_after"
    /\ UNCHANGED <<CheckFrame, result, before_count, after_count, updated,
                   worlds_before, worlds_after, updates>>

\* line 170: worlds_after
VUAfter ==
    /\ pc = "vu_after"
    /\ \E w \in database_verifier.worlds : worlds_after' = w
    /\ calls' = Append(calls, Read("get_all_from_world_table"))
    /\ pc' = "vu_count"
    /\ UNCHANGED <<CheckFrame, messages, result, before_count, after_count,
                   updated, worlds_before, updates>>

\* lines 172-181: the loop that counts the updates
VUCount ==
    /\ pc = "vu_count"
    /\ updates' = CountUpdates(worlds_before, worlds_after)
    /\ pc' = "vu_tier"
    /\ UNCHANGED <<CheckFrame, messages, result, before_count, after_count,
                   updated, worlds_before, worlds_after, calls>>

\* lines 159 and 183-195: the tier policy against concurrency * repetitions
VUTier ==
    /\ pc = "vu_tier"
    /\ messages' = messages
           \o TierMessages(updates, ExpectedUpdatesOf(concurrency, repetitions))
    /\ pc' = "vu_return"
    /\ UNCHANGED <<CheckFrame, result, before_count, after_count, updated,
                   worlds_before, worlds_after, updates, calls>>

\* line 196: the locals go, control returns to the caller
VUReturn ==
    /\ pc = "vu_return"
    /\ worlds_before' = NoWorld
    /\ worlds_after' = NoWorld
    /\ updates' = 0
    /\ IF entry = "verify"
       THEN pc' = "loop" /\ test_index' = test_index + 1 /\ UNCHANGED result
       ELSE pc' = "done" /\ result' = "returned" /\ UNCHANGED test_index
    /\ UNCHANGED <<concurrency_levels, database_verifier, num_cpus, entry, url,
                   expected_length, concurrency, repetitions, expected_rows,
                   expected_queries, expected_updates, check_url,
                   primer_command, warmup_command, benchmark_commands, fetches,
                   messages, before_count, after_count, updated, calls>>

Next ==
    \/ VerifyStart
    \/ FetchHeaders
    \/ LoopBody
    \/ LoopEnd
    \/ QueriesCount
    \/ RowsCount
    \/ CallVerifyUpdatesCount
    \/ UCBefore
    \/ UCLoad
    \/ UCAfter
    \/ UCCompare
    \/ UCReturn
    \/ CallVerifyUpdates
    \/ VUBefore
    \/ VULoad
    \/ VUAfter
    \/ VUCount
    \/ VUTier
    \/ VUReturn

Spec == Init /\ [][Next]_vars

-----------------------------------------------------------------------------
(* verify_updates_count called on its own, with any arguments and counts *)

CountAnswers ==
    {U32(0), U32(1), U32(39), U32(40), U32(41), <<1, 0>>, <<Half - 1, Half - 2>>, U32Max}

InitCount ==
    /\ entry = "verify_updates_count"
    /\ pc = "uc_before"
    /\ concurrency \in {1, 8}
    /\ repetitions \in {1, 2}
    /\ concurrency_levels = <<concurrency>>
    /\ database_verifier \in
         {[counts |-> CountAnswers, worlds |-> {}, reports |-> r] :
            r \in {{}, DatabaseOps}}
    /\ num_cpus = 4
    /\ url = <<>>
    /\ check_url \in {Url20(u) : u \in Urls}
    /\ expected_updates \in {U32(1), U32(40), U32Max}
    /\ messages = <<>>
    /\ result = "none"
    /\ fetches = <<>>
    /\ calls = <<>>
    /\ test_index = 0
    /\ expected_length = 0
    /\ expected_rows = 0
    /\ expected_queries = 0
    /\ before_count = U32(0)
    /\ after_count = U32(0)
    /\ updated = U32(0)
    /\ worlds_before = NoWorld
    /\ worlds_after = NoWorld
    /\ updates = 0
    /\ primer_command = <<>>
    /\ warmup_command = <<>>
    /\ benchmark_commands = <<>>

NextCount ==
    \/ UCBefore
    \/ UCLoad
    \/ UCAfter
    \/ UCCompare
    \/ UCReturn

SpecCount == InitCount /\ [][NextCount]_vars

-----------------------------------------------------------------------------
(* verify_updates called on its own, with any arguments and snapshots *)

InitUpdates ==
    /\ entry = "verify_updates"
    /\ pc = "vu_before"
    /\ concurrency \in {1, 2}
    /\ repetitions \in {1, 2}
    /\ concurrency_levels = <<concurrency>>
    /\ database_verifier \in
         {[counts |-> {}, worlds |-> Worlds(MaxKey), reports |-> r] :
            r \in {{}, DatabaseOps}}
    /\ num_cpus = 4
    /\ url = <<>>
    /\ check_url \in {Url20(u) : u \in Urls}
    /\ expected_updates = U32(0)
    /\ messages = <<>>
    /\ result = "none"
    /\ fetches = <<>>
    /\ calls = <<>>
    /\ test_index = 0
    /\ expected_length = 0
    /\ expected_rows = 0
    /\ expected_queries = 0
    /\ before_count = U32(0)
    /\ after_count = U32(0)
    /\ updated = U32(0)
    /\ worlds_before = NoWorld
    /\ worlds_after = NoWorld
    /\ updates = 0
    /\ primer_command = <<>>
    /\ warmup_command = <<>>
    /\ benchmark_commands = <<>>

NextUpdates ==
    \/ VUBefore
    \/ VULoad
    \/ VUAfter
    \/ VUCount
    \/ VUTier
    \/ VUReturn

SpecUpdates == InitUpdates /\ [][NextUpdates]_vars

-----------------------------------------------------------------------------
(* The tier policy of verify_updates on any count of updates *)

\* floor(0.90 * e) and floor(0.95 * e) in integers
Floor90(e) == 9 * (e \div 10) + (9 * (e % 10)) \div 10

Floor95(e) == 19 * (e \div 20) + (19 * (e % 20)) \div 20

\* concurrency values: the small ones, and large ones whose f32 products
\* need rounding
TierConcurrency ==
    (1..MaxSmall) \cup {50, 2207540, 2207541, 2330171, 16777217, 1000000007}

\* counts of updates around the tier boundaries of e
TierUpdates(e) ==
    (0..(2 * MaxSmall + 1))
    \cup {u \in {Floor90(e) + d : d \in -2..2} \cup {Floor95(e) + d : d \in -2..2}
               \cup {e} : u >= 0}

InitTier ==
    /\ entry = "verify_updates"
    /\ pc = "vu_tier"
    /\ concurrency \in TierConcurrency
    /\ repetitions \in {1, 2}
    /\ updates \in TierUpdates(ExpectedUpdatesOf(concurrency, repetitions))
    /\ concurrency_levels = <<concurrency>>
    /\ database_verifier = [counts |-> {}, worlds |-> {}, reports |-> {}]
    /\ num_cpus = 4
    /\ url = <<>>
    /\ check_url = Url20(<<"http://tfb-server/updates?queries=">>)
    /\ expected_updates = U32(0)
    /\ messages = <<>>
    /\ result = "none"
    /\ fetches = <<>>
    /\ calls = <<>>
    /\ test_index = 0
    /\ expected_length = 0
    /\ expected_rows = 0
    /\ expected_queries = 0
    /\ before_count = U32(0)
    /\ after_count = U32(0)
    /\ updated = U32(0)
    /\ worlds_before = NoWorld
    /\ worlds_after = NoWorld
    /\ primer_command = <<>>
    /\ warmup_command = <<>>
    /\ benchmark_commands = <<>>

NextTier ==
    \/ VUTier
    \/ VUReturn

SpecTier == InitTier /\ [][NextTier]_vars

-----------------------------------------------------------------------------
(* Executor::retrieve_benchmark_commands *)

CmdLevels == {1, 8, 50, 512}

InitCmd ==
    /\ entry = "retrieve_benchmark_commands"
    /\ pc = "primer"
    /\ concurrency_levels \in {<<>>} \cup SeqsUpTo(CmdLevels, MaxLevels)
    /\ database_verifier = [counts |-> {}, worlds |-> {}, reports |-> {}]
    /\ num_cpus \in {1, 4, 100}
    /\ url \in Urls
    /\ messages = <<>>
    /\ result = "none"
    /\ fetches = <<>>
    /\ calls = <<>>
    /\ LocalsInit

CmdFrame == <<concurrency_levels, database_verifier, num_cpus, entry, url,
              messages, test_index, expected_length, concurrency, repetitions,
              expected_rows, expected_queries, expected_updates, check_url,
              before_count, after_count, updated, worlds_before, worlds_after,
              updates, fetches, calls>>

\* line 18: primer_command
CmdPrimer ==
    /\ pc = "primer"
    /\ primer_command' = GetWrkCommand(url, 5, 8)
    /\ pc' = "warmup"
    /\ UNCHANGED <<CmdFrame, result, warmup_command, benchmark_commands>>

\* lines 19-21: warmup_command at the maximum level, Vec::default()
CmdWarmup ==
    /\ pc = "warmup"
    /\ IF concurrency_levels = <<>>
       THEN \* line 20: unwrap() of the maximum of no levels
            /\ result' = "panic"
            /\ pc' = "done"
            /\ UNCHANGED <<warmup_command, benchmark_commands>>
       ELSE /\ warmup_command' = GetWrkCommand(url, 15, SeqMax(concurrency_levels))
            /\ benchmark_commands' = <<>>
            /\ pc' = "benchmark"
            /\ UNCHANGED result
    /\ UNCHANGED <<CmdFrame, primer_command>>

\* lines 22-24: one iteration of the loop over concurrency_levels
CmdPush ==
    /\ pc = "benchmark"
    /\ Len(benchmark_commands) < Len(concurrency_levels)
    /\ benchmark_commands' =
         Append(benchmark_commands,
                GetWrkCommand(url, 15,
                              concurrency_levels[Len(benchmark_commands) + 1]))
    /\ UNCHANGED <<CmdFrame, pc, result, primer_command, warmup_command>>

\* lines 26-30: Ok(BenchmarkCommands { .. })
CmdReturn ==
    /\ pc = "benchmark"
    /\ Len(benchmark_commands) = Len(concurrency_levels)
    /\ result' = "Ok"
    /\ pc' = "done"
    /\ UNCHANGED <<CmdFrame, primer_command, warmup_command, benchmark_commands>>

NextCmd ==
    \/ CmdPrimer
    \/ CmdWarmup
    \/ CmdPush
    \/ CmdReturn

SpecCmd == InitCmd /\ [][NextCmd]_vars

-----------------------------------------------------------------------------
(* Properties *)

\* the severity and label of each message
Kinds(msgs) == [k \in 1..Len(msgs) |-> <<msgs[k].severity, msgs[k].label>>]

\* a + b of two u32 values, not wrapped (the high half may pass 2^16)
Plus(a, b) == <<a[1] + b[1] + ((a[2] + b[2]) \div Half), (a[2] + b[2]) % Half>>

\* a - b of two u32 values with a >= b
Minus(a, b) ==
    IF a[2] >= b[2] THEN <<a[1] - b[1], a[2] - b[2]>>
    ELSE <<a[1] - b[1] - 1, a[2] + Half - b[2]>>

AbsDiff(a, b) == IF U32Less(a, b) THEN Minus(b, a) ELSE Minus(a, b)

\* the outcome the tier policy is said to give for u updates against e expected
TierOutcome(u, e) ==
    IF u = 0 THEN << <<"error", "No Updates">> >>
    ELSE IF u <= Floor90(e) THEN << <<"error", "Too Few Updates">> >>
    ELSE IF u <= Floor95(e) THEN << <<"warning", "Too Few Updates">> >>
    ELSE <<>>

\* C1, as stated: for every count of updates U and every E = concurrency *
\* repetitions >= 1, verify_updates records the "No Updates" error when U = 0,
\* the "Too Few Updates" error when 0 < U <= floor(0.90 E), the "Too Few
\* Updates" warning when floor(0.90 E) < U <= floor(0.95 E), and nothing above.
C1_TiersForEveryExpected ==
    pc = "vu_return" => Kinds(messages) = TierOutcome(updates, concurrency * repetitions)

\* C1, amended: the same four tiers for every E from 1 to 2207540, the range
\* in which the single-precision products E * 0.90 and E * 0.95 truncate to
\* floor(0.90 E) and floor(0.95 E).
C1_TiersUpToExactRange ==
    (pc = "vu_return" /\ concurrency * repetitions <= 2207540)
        => Kinds(messages) = TierOutcome(updates, concurrency * repetitions)

\* C1 witness: a warning at the largest E of the range, one below its 0.95 boundary
C1_Witness ==
    /\ pc = "vu_return"
    /\ concurrency * repetitions = 2207540
    /\ updates = 2097163
    /\ Kinds(messages) = << <<"warning", "Too Few Updates">> >>

\* C2: verify_updates_count is a lower-bound test: when the after count is
\* before + D, the comparison step appends nothing if D >= expected_updates
\* and appends exactly one "Too Few Rows" error (no warning) if
\* D < expected_updates.
C2_LowerBound ==
    [][(pc = "uc_compare" /\ ~U32Less(after_count, before_count))
         => /\ pc' = "uc_return"
            /\ Len(messages') >= Len(messages)
            /\ SubSeq(messages', 1, Len(messages)) = messages
            /\ Kinds(SubSeq(messages', Len(messages) + 1, Len(messages'))) =
                 IF U32Less(after_count, Plus(before_count, expected_updates))
                 THEN << <<"error", "Too Few Rows">> >>
                 ELSE <<>>]_vars

\* C2 witness: an overshoot (D > expected_updates > 0) went through the
\* comparison without a "Too Few Rows" message
C2_Witness ==
    /\ pc = "uc_return"
    /\ U32Less(before_count, after_count)
    /\ U32Less(Plus(before_count, expected_updates), after_count)
    /\ \A k \in 1..Len(messages) : messages[k].label # "Too Few Rows"

\* C10, as stated: for every pair of u32 counts, after < before included, the
\* check completes normally and records the "Too Few Rows" error if and only
\* if |after - before| < expected_updates.
C10_AbsoluteDifference ==
    /\ entry = "verify_updates_count" => result # "panic"
    /\ pc = "uc_return"
         => ((\E k \in 1..Len(messages) : messages[k].label = "Too Few Rows")
               <=> U32Less(AbsDiff(after_count, before_count), expected_updates))

\* the number of calls of op the database log holds
Count(op) == Cardinality({k \in 1..Len(calls) : calls[k].op = op})

\* the largest configured level
MaxLevel ==
    CHOOSE m \in {concurrency_levels[k] : k \in 1..Len(concurrency_levels)} :
        \A k \in 1..Len(concurrency_levels) : concurrency_levels[k] <= m

\* C3: in one verify call the delta checks run only while the loop is at the
\* test case "501" (the one whose expected length is 500), never twice, and
\* a call that returns Messages has run verify_updates_count and
\* verify_updates exactly once each.
C3_DeltaChecksOnce ==
    /\ Count("verify_updates_count") <= 1
    /\ Count("verify_updates") <= 1
    /\ pc \notin {"verify", "headers", "loop", "done"}
         => /\ test_cases[test_index] = <<"5", "0", "1">>
            /\ expected_length = 500
    /\ calls # <<>> => test_index >= 4
    /\ result = "Ok"
         => Count("verify_updates_count") = 1 /\ Count("verify_updates") = 1

\* C3 witness: a verify call that returned Messages after one run of each check
C3_Witness ==
    /\ result = "Ok"
    /\ Count("verify_updates_count") = 1
    /\ Count("verify_updates") = 1
    /\ Len(fetches) = 6

\* C4, as stated: a transport failure of the header fetch or of any body
\* fetch makes verify return the error, with nothing executed after it.
C4_AnyFetchFailureAborts ==
    \A k \in 1..Len(fetches) :
        ~fetches[k].ok => (result = "Err" /\ pc = "done" /\ k = Len(fetches))

\* C4, amended: a transport failure of the header fetch makes verify return
\* the error at that step, with no message recorded, no body fetched and no
\* delta check run; a transport failure of a body fetch never makes verify
\* return an error: its body is recorded and asserted like any other.
C4_HeaderFailureAborts ==
    /\ (fetches # <<>> /\ ~fetches[1].ok)
         => /\ result = "Err"
            /\ pc = "done"
            /\ Len(fetches) = 1
            /\ messages = <<>>
            /\ calls = <<>>
    /\ result = "Err" => (Len(fetches) = 1 /\ ~fetches[1].ok)
    /\ \A k \in 2..Len(fetches) :
         /\ fetches[k].what = "body"
         /\ Cardinality({j \in 1..Len(messages) : messages[j].severity = "body"})
              >= k - 1

\* C4 witness: the header fetch failed and verify returned the error
C4_Witness ==
    /\ result = "Err"
    /\ fetches = <<[what |-> "headers", url |-> url, ok |-> FALSE]>>

\* C5, as stated: 20 * 2 * max(levels) is the expectation both delta checks
\* compare with (the expected value their messages quote).
C5_SameExpectationInBothChecks ==
    \A k \in 1..Len(messages) :
        /\ messages[k].label = "Too Few Rows"
             => messages[k].args[2] = U32(20 * 2 * MaxLevel)
        /\ messages[k].label = "Too Few Updates"
             => messages[k].args[2] = 20 * 2 * MaxLevel

\* C5, amended: expected_rows = expected_updates = 20 * 2 * max(levels) is
\* computed once, handed to verify_rows_count and verify_updates_count, and is
\* what verify_updates_count compares with; verify_updates compares with
\* concurrency * repetitions = 2 * max(levels).
C5_ExpectationPerCheck ==
    /\ (pc # "verify" /\ concurrency_levels # <<>>)
         => /\ expected_rows = 20 * 2 * MaxLevel
            /\ expected_updates = U32(20 * 2 * MaxLevel)
    /\ \A k \in 1..Len(calls) :
         /\ calls[k].op = "verify_rows_count"
              => calls[k].expected = 20 * 2 * MaxLevel
         /\ calls[k].op = "verify_updates_count"
              => calls[k].expected = U32(20 * 2 * MaxLevel)
    /\ \A k \in 1..Len(messages) :
         /\ messages[k].label = "Too Few Rows"
              => messages[k].args[2] = U32(20 * 2 * MaxLevel)
         /\ messages[k].label = "Too Few Updates"
              => messages[k].args[2] = 2 * MaxLevel

\* C5 witness: levels 8 and 32, both checks reported against their expectation
C5_Witness ==
    /\ concurrency_levels = <<8, 32>>
    /\ \E k \in 1..Len(messages) :
         messages[k].label = "Too Few Rows" /\ messages[k].args[2] = U32(1280)
    /\ \E k \in 1..Len(messages) :
         messages[k].label = "Too Few Updates" /\ messages[k].args[2] = 64

\* C6, as stated: once the header fetch has succeeded, verify ends by
\* returning Messages, having fetched the bodies of the five test cases in
\* their declared order, whatever the assertions and the database report.
C6_AlwaysCompletes ==
    (pc = "done" /\ fetches # <<>> /\ fetches[1].ok)
        => /\ result = "Ok"
           /\ [k \in 1..(Len(fetches) - 1) |-> fetches[k + 1].url]
                = [k \in 1..Len(test_cases) |-> url \o test_cases[k]]

\* the checks C7 makes of one command of the load tool
IsCommand(cmd, duration, conc) ==
    /\ Len(cmd) = 17
    /\ cmd[9] = <<"-d">>
    /\ cmd[10] = duration
    /\ cmd[11] = <<"-c">>
    /\ \A k \in 1..Len(cmd[12]) : IsDigit(cmd[12][k])
    /\ ParseDigits(cmd[12]) = conc
    /\ cmd[13] = <<"--timeout">>
    /\ cmd[14] = <<"8">>
    /\ cmd[15] = <<"-t">>
    /\ \A k \in 1..Len(cmd[16]) : IsDigit(cmd[16][k])
    /\ ParseDigits(cmd[16]) = (IF conc <= num_cpus THEN conc ELSE num_cpus)
    /\ cmd[17] = url

\* C7: for a non-empty list of levels, the primer command has duration 5 and
\* concurrency 8, the warmup command duration 15 and the maximum level, and
\* there is one benchmark command per level, in order, with duration 15;
\* every command has the thread count min(concurrency, host parallelism) and
\* the timeout 8.
C7_BenchmarkCommands ==
    /\ primer_command # <<>> => IsCommand(primer_command, <<"5">>, 8)
    /\ warmup_command # <<>> => IsCommand(warmup_command, <<"1", "5">>, MaxLevel)
    /\ Len(benchmark_commands) <= Len(concurrency_levels)
    /\ \A k \in 1..Len(benchmark_commands) :
         IsCommand(benchmark_commands[k], <<"1", "5">>, concurrency_levels[k])
    /\ (entry = "retrieve_benchmark_commands" /\ result = "Ok")
         => /\ primer_command # <<>>
            /\ warmup_command # <<>>
            /\ Len(benchmark_commands) = Len(concurrency_levels)

\* C7 witness: the commands of two levels, one above and one below the host
\* parallelism, have been returned
C7_Witness ==
    /\ entry = "retrieve_benchmark_commands"
    /\ result = "Ok"
    /\ concurrency_levels = <<50, 1>>
    /\ num_cpus = 4
    /\ benchmark_commands[1][16] = <<"4">>
    /\ benchmark_commands[2][16] = <<"1">>
    /\ warmup_command[12] = <<"5", "0">>

\* C8, as stated: the updates counted are the row identifiers present in both
\* snapshots whose content differs, whatever the numbering of the identifiers.
C8_CountsChangedRows ==
    pc \in {"vu_tier", "vu_return"}
        => updates = Cardinality({k \in (DOMAIN worlds_before) \cap (DOMAIN worlds_after) :
                                    worlds_before[k] # worlds_after[k]})

\* the database calls of one complete verify, in order
ExpectedCalls ==
    LET u20 == url \o <<"2", "0">>
        m   == MaxLevel
    IN  << Call("verify_queries_count", u20, m, 2, 2 * m),
           Call("verify_rows_count", u20, m, 2, 40 * m),
           Call("verify_updates_count", u20, m, 2, U32(40 * m)),
           Read("get_count_of_rows_updated_for_table"),
           Call("issue_multi_query_requests", u20, m, 2, 0),
           Read("get_count_of_rows_updated_for_table"),
           Call("verify_updates", u20, m, 2, 0),
           Read("get_all_from_world_table"),
           Call("issue_multi_query_requests", u20, m, 1, 0),
           Read("get_all_from_world_table") >>

\* C9: each delta check issues exactly one load between its two reads:
\* verify_updates_count reads the count, issues the load on url + "20" with
\* the maximum level and 2 repetitions, reads the count; verify_updates,
\* started only after that, reads the table, issues the load with the same
\* concurrency and 1 repetition, reads the table. The database calls made so
\* far are always a prefix of that order.
C9_LoadBetweenReads ==
    /\ calls # <<>>
         => /\ Len(calls) <= Len(ExpectedCalls)
            /\ calls = SubSeq(ExpectedCalls, 1, Len(calls))
    /\ result = "Ok" => Len(calls) = Len(ExpectedCalls)

\* C9 witness: both checks have run to their last read
C9_Witness ==
    /\ pc = "vu_count"
    /\ Len(calls) = 10
    /\ calls[9].repetitions = 1
    /\ calls[5].repetitions = 2

====
